---- MODULE Spec2Model ----
(***************************************************************************)
(* Model of vulnerabilities/models.py: the PackageRelatedVulnerability     *)
(* table, PackageRelatedVulnerability.update_or_create run by concurrent   *)
(* improver workers, the vulnerable_to / resolved_to queries of            *)
(* Vulnerability and Package, Package.set_package_url, and the Package and *)
(* Advisory tables under their unique_together constraints; and of the     *)
(* version range resolver and the importer that                            *)
(* vulnerabilities/tests/test_istio.py exercises.                          *)
(*                                                                         *)
(* Every ORM call (objects.get, save, objects.create) is one autocommitted *)
(* database statement; update_or_create wraps them in no transaction, so   *)
(* the statements of different workers interleave.                         *)
(*                                                                         *)
(* Specifications:                                                         *)
(*   Spec            workers call update_or_create concurrently            *)
(*   SeqSpec         the same calls, one after another                     *)
(*   GraphSpec       calls on every (package, vulnerability) pair, one     *)
(*                   after another, for the graph queries                  *)
(*   UncheckedSpec   calls on instances that were never validated          *)
(*   ResolverSpec    resolve on bounded catalogs and on the Istio catalog  *)
(*   OpenRangeSpec   resolve on ranges without a start or without an end   *)
(*   ImporterSpec    process_file on advisories of several ranges          *)
(*   PackageUrlSpec  set_package_url on a Package instance                 *)
(*   IngestSpec      workers ingest package URLs and advisory documents    *)
(*                   concurrently; improvers read and stamp advisories     *)
(***************************************************************************)
EXTENDS Integers, Sequences, FiniteSets, TLC

\* ---------------------------------------------------------------- bounds
NumWorkers == 2
MaxCalls == 3

Workers == 1..NumWorkers
Packages == {"p1", "p2"}
Vulnerabilities == {"v1", "v2"}
Confidences == {60, 90, 100}

\* vulnerabilities.improver.MAX_CONFIDENCE, the default of the confidence
\* column and the bound of its MaxValueValidator.
MAX_CONFIDENCE == 100

\* created_by: the qualified name of the improver a worker runs.
ImproverName(w) ==
    IF w % 2 = 1 THEN "improvers.NginxBasicImprover" ELSE "improvers.DefaultImprover"

\* ----------------------------------------------------------------- state
VARIABLES
    store,      \* the PackageRelatedVulnerability table: a set of rows
    pc,         \* pc[w]: position of worker w inside update_or_create
    self,       \* self[w]: the unsaved instance update_or_create is called on
    existing,   \* existing[w]: the row objects.get returned to worker w
    calls,      \* number of update_or_create calls started so far
    seen,       \* history: every claim update_or_create was called with
    repeat,     \* history: repeat[w] iff w's call started right after a call
                \* with the same claim had finished
    finished,   \* history: the call that finished most recently
    known_versions, \* resolver input: the version catalog, in release order
    range_start,    \* resolver input: lower bound of the advisory's range
    range_end,      \* resolver input: upper bound of the advisory's range
    resolved,       \* resolver output, NotResolved before resolve has run
    releases,       \* importer input: the ranges of one advisory, in order
    affected_packages,  \* importer output, NotProcessed before process_file
    package,        \* a Package instance: its six package URL fields
    package_url,    \* the argument of set_package_url
    raised,         \* what set_package_url raised, NotCalled before the call
    held,           \* history: the fields of the instance before the call
    packages,       \* the Package table: a set of rows
    advisories,     \* the Advisory table: a set of rows
    ipc,            \* ipc[w]: position of worker w inside an ingestion call
    doc,            \* doc[w]: the package URL or document w is ingesting
    ingests,        \* number of ingestion calls started so far
    package_ids,    \* history: <<package URL, id of the row a call returned>>
    advisory_ids,   \* history: <<document, id of the row a call returned>>
    advisory_data   \* what to_advisory_data returned last

mergeVars == <<store, pc, self, existing, calls, seen, repeat, finished>>

resolverVars ==
    <<known_versions, range_start, range_end, resolved, releases,
      affected_packages>>

packageVars == <<package, package_url, raised, held>>

ingestVars ==
    <<packages, advisories, ipc, doc, ingests, package_ids, advisory_ids,
      advisory_data>>

vars == <<mergeVars, resolverVars, packageVars, ingestVars>>

\* A claim is the unsaved instance update_or_create is called on: the five
\* fields it reads. The instances an improver worker submits to the merge
\* engine: claims about the packages of one vulnerability, at every confidence.
MergeClaims(w) ==
    [package : Packages, vulnerability : {"v1"},
     created_by : {ImproverName(w)}, confidence : Confidences, fix : BOOLEAN]

\* The instances that populate the relationship graph for the queries: every
\* (package, vulnerability) pair, two confidence levels.
GraphClaims(w) ==
    [package : Packages, vulnerability : Vulnerabilities,
     created_by : {ImproverName(w)}, confidence : {60, 90}, fix : BOOLEAN]

\* Instances as any caller of update_or_create can build them: confidence
\* left out (the field's default), at the validators' bounds, and outside
\* them. The validators run in full_clean, which neither the constructor nor
\* update_or_create calls.
UncheckedClaims(w) ==
    [package : {"p1"}, vulnerability : {"v1"},
     created_by : {ImproverName(w)},
     confidence : {0 - 1, 0, MAX_CONFIDENCE, MAX_CONFIDENCE + 1}, fix : BOOLEAN]

NoClaim ==
    [package |-> "none", vulnerability |-> "none",
     created_by |-> "none", confidence |-> 0, fix |-> FALSE]

\* existing[w] when objects.get raised DoesNotExist (or was not called yet).
DoesNotExist ==
    [id |-> 0, package |-> "none", vulnerability |-> "none",
     created_by |-> "none", confidence |-> 0, fix |-> FALSE]

\* The messages update_or_create passes to logger.info.
NoEvent == "nothing logged"

ConfidenceImproved == "Confidence improved"

NewRelationship == "New relationship"

\* finished before any call has finished.
NoFinished ==
    [self |-> NoClaim, existing |-> DoesNotExist,
     outcome |-> "none", wrote |-> FALSE, repeat |-> FALSE, logged |-> NoEvent]

\* Rows of the table for one (package, vulnerability) pair.
RowsFor(table, p, v) ==
    {r \in table : r.package = p /\ r.vulnerability = v}

\* The auto-assigned primary key of a new row (rows are never deleted).
NextId(table) == Cardinality(table) + 1

\* The row objects.create inserts for an instance.
NewRow(table, inst) ==
    [id |-> NextId(table), package |-> inst.package,
     vulnerability |-> inst.vulnerability, created_by |-> inst.created_by,
     confidence |-> inst.confidence, fix |-> inst.fix]

\* existing.save(): UPDATE of every column of the row with existing's primary
\* key (an INSERT if no such row is left).
SaveRow(table, obj) ==
    {r \in table : r.id # obj.id} \cup {obj}

\* existing with the three fields update_or_create copies from self.
Improved(row, inst) ==
    [row EXCEPT !.created_by = inst.created_by,
                !.confidence = inst.confidence,
                !.fix = inst.fix]

\* ------------------------------------------------------ Package identity
\* Python values: None, a str (a character repeated len times), a dict (its
\* keys).
None == [kind |-> "None"]

Str(char, n) == [kind |-> "str", char |-> char, len |-> n]

Dict(keys) == [kind |-> "dict", keys |-> keys]

len(value) ==
    IF value.kind = "str" THEN value.len ELSE Cardinality(value.keys)

\* bool(value): None, '' and {} are false.
Truthy(value) == value.kind # "None" /\ len(value) > 0

\* PackageURL.to_dict(): the fields in this order.
FieldNames == <<"type", "namespace", "name", "version", "qualifiers", "subpath">>

\* self._meta.get_field(field_name).max_length: the CharFields of
\* PackageURLMixin declare one; Package overrides qualifiers with a JSONField,
\* which has none (None).
max_length(field_name) ==
    CASE field_name = "type" -> 16
      [] field_name = "namespace" -> 255
      [] field_name = "name" -> 100
      [] field_name = "version" -> 100
      [] field_name = "qualifiers" -> 0 - 1
      [] field_name = "subpath" -> 200

HasMaxLength(field_name) == max_length(field_name) >= 0

NotCalled == [error |-> "not called", field |-> ""]

Returned == [error |-> "", field |-> ""]

\* ValidationError(f'Value too long for field "{field_name}".')
ValidationError(field_name) == [error |-> "ValidationError", field |-> field_name]

\* len(value) > None
TypeError == [error |-> "TypeError", field |-> ""]

\* PackageURL.from_string on a string that is no package URL.
ValueError == [error |-> "ValueError", field |-> ""]

RECURSIVE set_fields_KeepsOnEmpty(_, _, _)
\* set_fields that sets a field only when the component has a value: an
\* empty component leaves what the field held.
set_fields_KeepsOnEmpty(instance, url, i) ==
    IF i > Len(FieldNames)
    THEN [package |-> instance, raised |-> Returned]
    ELSE LET field_name == FieldNames[i]
             value == url[field_name]
         IN  IF Truthy(value) /\ ~HasMaxLength(field_name)
             THEN [package |-> instance, raised |-> TypeError]
             ELSE IF Truthy(value) /\ len(value) > max_length(field_name)
             THEN [package |-> instance, raised |-> ValidationError(field_name)]
             ELSE set_fields_KeepsOnEmpty(
                      [instance EXCEPT ![field_name] =
                          IF Truthy(value) THEN value ELSE @],
                      url, i + 1)

RECURSIVE set_fields(_, _, _)
\* The loop of set_package_url from the i-th field on:
\*   if value and len(value) > model_field.max_length: raise ValidationError
\*   setattr(self, field_name, value or None)
\* The fields before the one that raises are already set.
set_fields(instance, url, i) ==
    IF i > Len(FieldNames)
    THEN [package |-> instance, raised |-> Returned]
    ELSE LET field_name == FieldNames[i]
             value == url[field_name]
         IN  IF Truthy(value) /\ ~HasMaxLength(field_name)
             THEN [package |-> instance, raised |-> TypeError]
             ELSE IF Truthy(value) /\ len(value) > max_length(field_name)
             THEN [package |-> instance, raised |-> ValidationError(field_name)]
             ELSE set_fields(
                      [instance EXCEPT ![field_name] =
                          IF Truthy(value) THEN value ELSE None],
                      url, i + 1)

\* Package.set_package_url(package_url): a string is parsed first.
set_package_url(instance, url) ==
    IF ~url.valid
    THEN [package |-> instance, raised |-> ValueError]
    ELSE set_fields(instance, url, 1)

\* Package(): no field given. The nullable CharFields are None, qualifiers is
\* default=dict.
NewPackage ==
    [type |-> None, namespace |-> None, name |-> None, version |-> None,
     qualifiers |-> Dict({}), subpath |-> None]

\* An instance every field of which has a value.
SetPackage ==
    [type |-> Str("o", 3), namespace |-> Str("p", 6), name |-> Str("q", 4),
     version |-> Str("r", 5), qualifiers |-> Dict({"os"}),
     subpath |-> Str("u", 7)]

\* Package URLs: every field short or absent, at its maximum length, and one
\* over it, an empty version and empty qualifiers; and a string that is no
\* package URL.
PackageUrls ==
    [valid : {TRUE},
     type : {Str("t", 3), Str("t", 16), Str("t", 17)},
     namespace : {None, Str("n", 255), Str("n", 256)},
     name : {Str("a", 4), Str("a", 100), Str("a", 101)},
     version : {None, Str("", 0), Str("1", 100), Str("1", 101)},
     qualifiers : {None, Dict({}), Dict({"arch"})},
     subpath : {None, Str("s", 200), Str("s", 201)}]
    \cup
    [valid : {FALSE}, type : {None}, namespace : {None}, name : {None},
     version : {None}, qualifiers : {None}, subpath : {None}]

NoPackageUrl ==
    [valid |-> FALSE, type |-> None, namespace |-> None, name |-> None,
     version |-> None, qualifiers |-> None, subpath |-> None]

\* --------------------------------------------------- ingestion into tables
MaxIngests == 3

\* A datetime, and a JSON column value (a list).
Date(n) == [kind |-> "datetime", day |-> n]

Json(items) == [kind |-> "json", items |-> items]

\* Package.Meta.unique_together and Advisory.Meta.unique_together.
PackageKey == {"type", "namespace", "name", "version", "qualifiers", "subpath"}

AdvisoryKey ==
    {"aliases", "summary", "affected_packages", "references", "date_published"}

\* The UNIQUE constraint of unique_together rejects a row when a row of the
\* table has equal values in all the columns; in SQL a NULL equals nothing,
\* another NULL included.
UniqueViolation(table, row, columns) ==
    \E r \in table : \A c \in columns : r[c] # None /\ r[c] = row[c]

\* objects.filter(column=value, ...): a None value is looked up by IS NULL.
Lookup(table, key, columns) ==
    {r \in table : \A c \in columns : r[c] = key[c]}

\* The columns of a package URL: an empty component is stored as None, as
\* set_package_url does; qualifiers is null=False, default=dict.
StoredField(url, field_name) ==
    IF Truthy(url[field_name]) THEN url[field_name]
    ELSE IF field_name = "qualifiers" THEN Dict({}) ELSE None

PackageRow(id, url) ==
    [id |-> id, type |-> StoredField(url, "type"),
     namespace |-> StoredField(url, "namespace"),
     name |-> StoredField(url, "name"),
     version |-> StoredField(url, "version"),
     qualifiers |-> StoredField(url, "qualifiers"),
     subpath |-> StoredField(url, "subpath")]

\* The package URLs ingested: one with every optional component, one with
\* version only.
IngestPackageUrls ==
    {url \in PackageUrls :
        /\ url.valid
        /\ url.type = Str("t", 3) /\ url.name = Str("a", 4)
        /\ url.version = Str("1", 100) /\ url.qualifiers = None
        /\ \/ url.namespace = None /\ url.subpath = None
           \/ url.namespace = Str("n", 255) /\ url.subpath = Str("s", 200)}

\* Raw advisory documents: summary and date_published are optional; one
\* document has both, one has no summary, one no date_published.
RawDocuments ==
    {document \in [aliases : {Json(<<"CVE-2019-12243">>)},
                   summary : {None, Str("i", 25)},
                   affected_packages : {Json(<<>>)},
                   references : {Json(<<>>)},
                   date_published : {None, Date(1)}] :
        document.summary # None \/ document.date_published # None}

\* The time of collection and the time of improvement.
CollectionDate == Date(2)

ImprovementDate == Date(3)

\* created_by of an Advisory: the qualified name of the importer.
ImporterName == "vulnerabilities.importers.nginx.NginxImporter"

AdvisoryRow(id, document) ==
    [id |-> id, aliases |-> document.aliases, summary |-> document.summary,
     affected_packages |-> document.affected_packages,
     references |-> document.references,
     date_published |-> document.date_published,
     date_collected |-> CollectionDate, date_improved |-> None,
     created_by |-> ImporterName]

NoDocument == [kind |-> "None"]

\* AdvisoryData(aliases=, summary=, affected_packages=, references=,
\* date_published=) built from the fields of an Advisory.
to_advisory_data(advisory) ==
    [aliases |-> advisory.aliases, summary |-> advisory.summary,
     affected_packages |-> advisory.affected_packages,
     references |-> advisory.references,
     date_published |-> advisory.date_published]

\* ------------------------------------------------- version range resolver
\* A version is the sequence of its numeric components: 1.1.17 is <<1, 1, 17>>.
MaxCatalog == 3

NoVersion == <<>>

NotResolved == [vulnerable |-> <<>>, patched |-> <<0>>]

Component(v, i) == IF i <= Len(v) THEN v[i] ELSE 0

LongerLen(a, b) == IF Len(a) >= Len(b) THEN Len(a) ELSE Len(b)

\* Release order: components compare as numbers, left to right; a missing
\* component counts as 0 (1.1 is 1.1.0).
VersionLess(a, b) ==
    \E i \in 1..LongerLen(a, b) :
        /\ Component(a, i) < Component(b, i)
        /\ \A j \in 1..(i - 1) : Component(a, j) = Component(b, j)

VersionLeq(a, b) == ~VersionLess(b, a)

\* VulnerableVersions that reads an absent bound as the version 0.
VulnerableVersions_AbsentAsZero(s, e, known) ==
    SelectSeq(known, LAMBDA v : VersionLeq(s, v) /\ VersionLeq(v, e))

\* The catalog versions within the range, in catalog order. An absent bound
\* (NoVersion) leaves that side of the range open.
VulnerableVersions(s, e, known) ==
    SelectSeq(known, LAMBDA v : /\ (s = NoVersion \/ VersionLeq(s, v))
                                /\ (e = NoVersion \/ VersionLeq(v, e)))

\* The catalog versions after the end of the range.
LaterVersions(e, known) == SelectSeq(known, LAMBDA v : VersionLess(e, v))

\* PatchedVersion that takes the newest release after the range.
PatchedVersion_Newest(e, known) ==
    IF LaterVersions(e, known) = <<>>
    THEN NoVersion
    ELSE LaterVersions(e, known)[Len(LaterVersions(e, known))]

\* The first catalog version after the end of the range, if any; none for a
\* range without an end.
PatchedVersion(e, known) ==
    IF e = NoVersion \/ LaterVersions(e, known) = <<>>
    THEN NoVersion
    ELSE Head(LaterVersions(e, known))

\* resolve(range_start, range_end, known_versions)
resolve(s, e, known) ==
    [vulnerable |-> VulnerableVersions(s, e, known),
     patched |-> PatchedVersion(e, known)]

\* The catalog of the Istio importer's test.
IstioVersions ==
    << <<1, 0, 0>>, <<1, 1, 0>>, <<1, 1, 1>>, <<1, 1, 17>>, <<1, 2, 1>>,
       <<1, 2, 7>>, <<1, 3, 0>>, <<1, 3, 1>>, <<1, 3, 2>>, <<1, 9, 1>> >>

\* Its advisory's releases: "1.1 to 1.1.15", "1.2 to 1.2.6", "1.3 to 1.3.1".
IstioReleases ==
    << << <<1, 1>>, <<1, 1, 15>> >>,
       << <<1, 2>>, <<1, 2, 6>> >>,
       << <<1, 3>>, <<1, 3, 1>> >> >>

\* The (vulnerable versions, patched version) the test expects per release.
IstioExpected ==
    << [vulnerable |-> << <<1, 1, 0>>, <<1, 1, 1>> >>, patched |-> <<1, 1, 17>>],
       [vulnerable |-> << <<1, 2, 1>> >>, patched |-> <<1, 2, 7>>],
       [vulnerable |-> << <<1, 3, 0>>, <<1, 3, 1>> >>, patched |-> <<1, 3, 2>>] >>

\* ------------------------------------------------- importer: process_file
\* The package-type views the project is published under, in the order the
\* test expects their pairs.
Views == <<"golang", "github">>

MaxRanges == 2

NotProcessed == <<"not processed">>

\* PackageURL(type=, name="istio", version=); no package for no version.
NoPackage == [type |-> "none", name |-> "none", version |-> NoVersion]

VersionPackage(type, version) ==
    IF version = NoVersion
    THEN NoPackage
    ELSE [type |-> type, name |-> "istio", version |-> version]

\* One AffectedPackage per vulnerable version of a resolved range.
AffectedPackages(type, result) ==
    [i \in 1..Len(result.vulnerable) |->
        [vulnerable_package |-> VersionPackage(type, result.vulnerable[i]),
         patched_package |-> VersionPackage(type, result.patched)]]

RECURSIVE resolve_view_Reversed(_, _, _)
\* resolve_view that puts the pairs of a later range first.
resolve_view_Reversed(type, ranges, known) ==
    IF ranges = <<>>
    THEN <<>>
    ELSE resolve_view_Reversed(type, Tail(ranges), known)
            \o AffectedPackages(type, resolve(Head(ranges)[1], Head(ranges)[2], known))

RECURSIVE resolve_view(_, _, _)
\* One view: every range of the advisory resolved against the catalog, the
\* pairs of the ranges concatenated in range order.
resolve_view(type, ranges, known) ==
    IF ranges = <<>>
    THEN <<>>
    ELSE AffectedPackages(type, resolve(Head(ranges)[1], Head(ranges)[2], known))
            \o resolve_view(type, Tail(ranges), known)

\* process_file: the pairs of every view, view after view.
process_file(ranges, known) ==
    resolve_view(Views[1], ranges, known) \o resolve_view(Views[2], ranges, known)

\* AffectedPackage(vulnerable_package=PackageURL(type, "istio", vulnerable),
\*                 patched_package=PackageURL(type, "istio", patched))
IstioPair(type, vulnerable, patched) ==
    [vulnerable_package |-> [type |-> type, name |-> "istio", version |-> vulnerable],
     patched_package |-> [type |-> type, name |-> "istio", version |-> patched]]

\* affected_packages of the advisory test_process_file expects.
IstioAffectedPackages ==
    << IstioPair("golang", <<1, 1, 0>>, <<1, 1, 17>>),
       IstioPair("golang", <<1, 1, 1>>, <<1, 1, 17>>),
       IstioPair("golang", <<1, 2, 1>>, <<1, 2, 7>>),
       IstioPair("golang", <<1, 3, 0>>, <<1, 3, 2>>),
       IstioPair("golang", <<1, 3, 1>>, <<1, 3, 2>>),
       IstioPair("github", <<1, 1, 0>>, <<1, 1, 17>>),
       IstioPair("github", <<1, 1, 1>>, <<1, 1, 17>>),
       IstioPair("github", <<1, 2, 1>>, <<1, 2, 7>>),
       IstioPair("github", <<1, 3, 0>>, <<1, 3, 2>>),
       IstioPair("github", <<1, 3, 1>>, <<1, 3, 2>>) >>

\* Versions the bounded catalogs are made of, and the bounds tried on them
\* (members and non-members, two and three components).
PoolVersions ==
    {<<1, 2, 0>>, <<1, 2, 2>>, <<1, 2, 10>>, <<1, 10, 0>>, <<1, 10, 2>>, <<2, 0, 0>>}

BoundVersions ==
    PoolVersions \cup {<<1, 2>>, <<1, 2, 5>>, <<1, 3>>, <<1, 10>>, <<3>>}

IsOrdered(known) ==
    \A i \in 1..(Len(known) - 1) : VersionLess(known[i], known[i + 1])

\* Every catalog of at most MaxCatalog pool versions, in release order.
Catalogs ==
    {known \in UNION {[1..n -> PoolVersions] : n \in 0..MaxCatalog} :
        IsOrdered(known)}

\* The ranges the bounded advisories are made of: ranges with and without
\* vulnerable versions in the pool, with and without a later version.
PoolRanges ==
    { << <<1, 2>>, <<1, 2, 5>> >>, << <<1, 2, 2>>, <<1, 10>> >>,
      << <<1, 3>>, <<1, 10, 2>> >>, << <<1, 2>>, <<3>> >> }

\* Every advisory of at most MaxRanges pool ranges.
AdvisoryRanges == UNION {[1..n -> PoolRanges] : n \in 0..MaxRanges}

\* Empty tables, no ingestion call in progress.
IngestInit ==
    /\ packages = {}
    /\ advisories = {}
    /\ ipc = [w \in Workers |-> "idle"]
    /\ doc = [w \in Workers |-> NoDocument]
    /\ ingests = 0
    /\ package_ids = {}
    /\ advisory_ids = {}
    /\ advisory_data = NoDocument

Init ==
    /\ store = {}
    /\ pc = [w \in Workers |-> "idle"]
    /\ self = [w \in Workers |-> NoClaim]
    /\ existing = [w \in Workers |-> DoesNotExist]
    /\ calls = 0
    /\ seen = {}
    /\ repeat = [w \in Workers |-> FALSE]
    /\ finished = NoFinished
    /\ known_versions = <<>>
    /\ range_start = NoVersion
    /\ range_end = NoVersion
    /\ resolved = NotResolved
    /\ releases = <<>>
    /\ affected_packages = NotProcessed
    /\ package = NewPackage
    /\ held = NewPackage
    /\ package_url = NoPackageUrl
    /\ raised = NotCalled
    /\ IngestInit

\* ------------------------------------------------------------ operations
\* update_or_create returns to its caller ("done") or raises ("error") after
\* turning the table into `table` and logging `event`; the worker's frame is
\* gone.
Finish(w, outcome, table, event) ==
    /\ store' = table
    /\ pc' = [pc EXCEPT ![w] = "idle"]
    /\ self' = [self EXCEPT ![w] = NoClaim]
    /\ existing' = [existing EXCEPT ![w] = DoesNotExist]
    /\ repeat' = [repeat EXCEPT ![w] = FALSE]
    /\ finished' = [self |-> self[w], existing |-> existing[w],
                    outcome |-> outcome, wrote |-> (table # store),
                    repeat |-> repeat[w], logged |-> event]

\* Get with the lookup keyed on the vulnerability alone (package= forgotten).
Get_ByVulnerabilityOnly(w, instances) ==
    /\ pc[w] = "idle"
    /\ calls < MaxCalls
    /\ calls' = calls + 1
    /\ \E inst \in instances :
        /\ seen' = seen \cup {inst}
        /\ LET found == {r \in store : r.vulnerability = inst.vulnerability}
           IN  IF Cardinality(found) > 1
               THEN /\ finished' = [self |-> inst,
                                    existing |-> DoesNotExist, outcome |-> "error",
                                    wrote |-> FALSE,
                                    repeat |-> (inst = finished.self),
                                    logged |-> NoEvent]
                    /\ UNCHANGED <<pc, self, existing, repeat>>
               ELSE /\ self' = [self EXCEPT ![w] = inst]
                    /\ repeat' = [repeat EXCEPT ![w] = (inst = finished.self)]
                    /\ existing' = [existing EXCEPT ![w] =
                            IF found = {} THEN DoesNotExist
                            ELSE CHOOSE r \in found : TRUE]
                    /\ pc' = [pc EXCEPT ![w] =
                            IF found = {} THEN "create" ELSE "got"]
                    /\ UNCHANGED finished
    /\ UNCHANGED store
    /\ UNCHANGED <<resolverVars, packageVars, ingestVars>>

\* A worker calls update_or_create on a fresh instance; its first statement is
\* existing = PackageRelatedVulnerability.objects.get(vulnerability=, package=)
\* which raises DoesNotExist (no row), caught by update_or_create, or
\* MultipleObjectsReturned (several rows), which reaches the caller.
Get(w, instances) ==
    /\ pc[w] = "idle"
    /\ calls < MaxCalls
    /\ calls' = calls + 1
    /\ \E inst \in instances :
        /\ seen' = seen \cup {inst}
        /\ LET found == RowsFor(store, inst.package, inst.vulnerability)
           IN  IF Cardinality(found) > 1
               THEN /\ finished' = [self |-> inst,
                                    existing |-> DoesNotExist, outcome |-> "error",
                                    wrote |-> FALSE,
                                    repeat |-> (inst = finished.self),
                                    logged |-> NoEvent]
                    /\ UNCHANGED <<pc, self, existing, repeat>>
               ELSE /\ self' = [self EXCEPT ![w] = inst]
                    /\ repeat' = [repeat EXCEPT ![w] = (inst = finished.self)]
                    /\ existing' = [existing EXCEPT ![w] =
                            IF found = {} THEN DoesNotExist
                            ELSE CHOOSE r \in found : TRUE]
                    /\ pc' = [pc EXCEPT ![w] =
                            IF found = {} THEN "create" ELSE "got"]
                    /\ UNCHANGED finished
    /\ UNCHANGED store
    /\ UNCHANGED <<resolverVars, packageVars, ingestVars>>

\* Save without the line existing.fix = self.fix.
Save_KeepsFix(w) ==
    /\ pc[w] = "got"
    /\ IF self[w].confidence > existing[w].confidence
       THEN Finish(w, "done",
                   SaveRow(store, [existing[w] EXCEPT
                                      !.created_by = self[w].created_by,
                                      !.confidence = self[w].confidence]),
                   ConfidenceImproved)
       ELSE Finish(w, "done", store, NoEvent)
    /\ UNCHANGED <<calls, seen>>
    /\ UNCHANGED <<resolverVars, packageVars, ingestVars>>

\* Save with the comparison >= in place of >: a tie replaces the incumbent.
Save_OnTie(w) ==
    /\ pc[w] = "got"
    /\ IF self[w].confidence >= existing[w].confidence
       THEN Finish(w, "done", SaveRow(store, Improved(existing[w], self[w])),
                   ConfidenceImproved)
       ELSE Finish(w, "done", store, NoEvent)
    /\ UNCHANGED <<calls, seen>>
    /\ UNCHANGED <<resolverVars, packageVars, ingestVars>>

\* Save with logger.info outside the if: a losing claim is logged as well.
Save_LogsAlways(w) ==
    /\ pc[w] = "got"
    /\ IF self[w].confidence > existing[w].confidence
       THEN Finish(w, "done", SaveRow(store, Improved(existing[w], self[w])),
                   ConfidenceImproved)
       ELSE Finish(w, "done", store, ConfidenceImproved)
    /\ UNCHANGED <<calls, seen>>
    /\ UNCHANGED <<resolverVars, packageVars, ingestVars>>

\* if self.confidence > existing.confidence: copy three fields,
\* existing.save(), logger.info("Confidence improved ...") and return; a claim
\* that is not greater returns without a word.
Save(w) ==
    /\ pc[w] = "got"
    /\ IF self[w].confidence > existing[w].confidence
       THEN Finish(w, "done", SaveRow(store, Improved(existing[w], self[w])),
                   ConfidenceImproved)
       ELSE Finish(w, "done", store, NoEvent)
    /\ UNCHANGED <<calls, seen>>
    /\ UNCHANGED <<resolverVars, packageVars, ingestVars>>

\* Create on a table without the unique_together constraint.
Create_NoUniqueCheck(w) ==
    /\ pc[w] = "create"
    /\ IF self[w].confidence >= 0
       THEN Finish(w, "done", store \cup {NewRow(store, self[w])},
                   NewRelationship)
       ELSE Finish(w, "error", store, NoEvent)
    /\ UNCHANGED <<calls, seen>>
    /\ UNCHANGED <<resolverVars, packageVars, ingestVars>>

\* Create whose rejected insert is not rolled back: the row stays in the table
\* and the IntegrityError is raised all the same.
Create_InsertThenCheck(w) ==
    /\ pc[w] = "create"
    /\ IF /\ RowsFor(store, self[w].package, self[w].vulnerability) = {}
          /\ self[w].confidence >= 0
       THEN Finish(w, "done", store \cup {NewRow(store, self[w])},
                   NewRelationship)
       ELSE Finish(w, "error", store \cup {NewRow(store, self[w])}, NoEvent)
    /\ UNCHANGED <<calls, seen>>
    /\ UNCHANGED <<resolverVars, packageVars, ingestVars>>

\* except DoesNotExist: PackageRelatedVulnerability.objects.create(...) and
\* return. unique_together = ("package", "vulnerability") rejects a second row
\* of the pair, and the CHECK (confidence >= 0) of the PositiveIntegerField
\* column a negative confidence, with an IntegrityError, which
\* update_or_create does not catch; logger.info("New relationship ...") comes
\* after the insert.
Create(w) ==
    /\ pc[w] = "create"
    /\ IF /\ RowsFor(store, self[w].package, self[w].vulnerability) = {}
          /\ self[w].confidence >= 0
       THEN Finish(w, "done", store \cup {NewRow(store, self[w])},
                   NewRelationship)
       ELSE Finish(w, "error", store, NoEvent)
    /\ UNCHANGED <<calls, seen>>
    /\ UNCHANGED <<resolverVars, packageVars, ingestVars>>

\* Improver workers call update_or_create concurrently.
Next ==
    \E w \in Workers :
        \/ Get(w, MergeClaims(w))
        \/ Save(w)
        \/ Create(w)

Spec == Init /\ [][Next]_vars

\* Claims applied one after another: a call starts only when no other call is
\* in progress.
NoCallInProgress == \A w \in Workers : pc[w] = "idle"

SeqNext ==
    \E w \in Workers :
        \/ (NoCallInProgress /\ Get(w, MergeClaims(w)))
        \/ Save(w)
        \/ Create(w)

SeqSpec == Init /\ [][SeqNext]_vars

\* The relationship graph filled by claims on every pair, one after another.
GraphNext ==
    \E w \in Workers :
        \/ (NoCallInProgress /\ Get(w, GraphClaims(w)))
        \/ Save(w)
        \/ Create(w)

GraphSpec == Init /\ [][GraphNext]_vars

\* update_or_create called, one call after another, on instances no improver
\* has validated.
UncheckedNext ==
    \E w \in Workers :
        \/ (NoCallInProgress /\ Get(w, UncheckedClaims(w)))
        \/ Save(w)
        \/ Create(w)

UncheckedSpec == Init /\ [][UncheckedNext]_vars

\* The resolver is run on a catalog and a range.
Resolve ==
    /\ resolved = NotResolved
    /\ resolved' = resolve(range_start, range_end, known_versions)
    /\ UNCHANGED <<known_versions, range_start, range_end>>
    /\ UNCHANGED <<releases, affected_packages>>
    /\ UNCHANGED <<mergeVars, packageVars, ingestVars>>

ResolverInit ==
    /\ store = {}
    /\ pc = [w \in Workers |-> "idle"]
    /\ self = [w \in Workers |-> NoClaim]
    /\ existing = [w \in Workers |-> DoesNotExist]
    /\ calls = 0
    /\ seen = {}
    /\ repeat = [w \in Workers |-> FALSE]
    /\ finished = NoFinished
    /\ \/ /\ known_versions = IstioVersions
          /\ \E i \in 1..Len(IstioReleases) :
                /\ range_start = IstioReleases[i][1]
                /\ range_end = IstioReleases[i][2]
       \/ /\ known_versions \in Catalogs
          /\ range_start \in BoundVersions
          /\ range_end \in BoundVersions
    /\ resolved = NotResolved
    /\ releases = <<>>
    /\ affected_packages = NotProcessed
    /\ package = NewPackage
    /\ held = NewPackage
    /\ package_url = NoPackageUrl
    /\ raised = NotCalled
    /\ IngestInit

ResolverNext == Resolve

ResolverSpec == ResolverInit /\ [][ResolverNext]_vars

\* The resolver is run on a range one bound of which is absent.
OpenRangeInit ==
    /\ store = {}
    /\ pc = [w \in Workers |-> "idle"]
    /\ self = [w \in Workers |-> NoClaim]
    /\ existing = [w \in Workers |-> DoesNotExist]
    /\ calls = 0
    /\ seen = {}
    /\ repeat = [w \in Workers |-> FALSE]
    /\ finished = NoFinished
    /\ known_versions \in Catalogs
    /\ \/ /\ range_start = NoVersion
          /\ range_end \in BoundVersions
       \/ /\ range_start \in BoundVersions
          /\ range_end = NoVersion
    /\ resolved = NotResolved
    /\ releases = <<>>
    /\ affected_packages = NotProcessed
    /\ package = NewPackage
    /\ held = NewPackage
    /\ package_url = NoPackageUrl
    /\ raised = NotCalled
    /\ IngestInit

OpenRangeNext == Resolve

OpenRangeSpec == OpenRangeInit /\ [][OpenRangeNext]_vars

\* The importer processes one advisory file.
ProcessFile ==
    /\ affected_packages = NotProcessed
    /\ package = NewPackage
    /\ held = NewPackage
    /\ package_url = NoPackageUrl
    /\ raised = NotCalled
    /\ affected_packages' = process_file(releases, known_versions)
    /\ UNCHANGED <<known_versions, range_start, range_end, resolved, releases>>
    /\ UNCHANGED <<mergeVars, packageVars, ingestVars>>

ImporterInit ==
    /\ store = {}
    /\ pc = [w \in Workers |-> "idle"]
    /\ self = [w \in Workers |-> NoClaim]
    /\ existing = [w \in Workers |-> DoesNotExist]
    /\ calls = 0
    /\ seen = {}
    /\ repeat = [w \in Workers |-> FALSE]
    /\ finished = NoFinished
    /\ \/ /\ known_versions = IstioVersions
          /\ releases = IstioReleases
       \/ /\ known_versions \in Catalogs
          /\ releases \in AdvisoryRanges
    /\ range_start = NoVersion
    /\ range_end = NoVersion
    /\ resolved = NotResolved
    /\ affected_packages = NotProcessed
    /\ package = NewPackage
    /\ held = NewPackage
    /\ package_url = NoPackageUrl
    /\ raised = NotCalled
    /\ IngestInit

ImporterNext == ProcessFile

ImporterSpec == ImporterInit /\ [][ImporterNext]_vars

\* set_package_url is called on a Package instance.
SetPackageUrl ==
    /\ raised = NotCalled
    /\ package' = set_package_url(package, package_url).package
    /\ raised' = set_package_url(package, package_url).raised
    /\ UNCHANGED <<package_url, held>>
    /\ UNCHANGED <<mergeVars, resolverVars, ingestVars>>

PackageUrlInit ==
    /\ store = {}
    /\ pc = [w \in Workers |-> "idle"]
    /\ self = [w \in Workers |-> NoClaim]
    /\ existing = [w \in Workers |-> DoesNotExist]
    /\ calls = 0
    /\ seen = {}
    /\ repeat = [w \in Workers |-> FALSE]
    /\ finished = NoFinished
    /\ known_versions = <<>>
    /\ range_start = NoVersion
    /\ range_end = NoVersion
    /\ resolved = NotResolved
    /\ releases = <<>>
    /\ affected_packages = NotProcessed
    /\ package \in {NewPackage, SetPackage}
    /\ held = package
    /\ package_url \in PackageUrls
    /\ raised = NotCalled
    /\ IngestInit

PackageUrlNext == SetPackageUrl

PackageUrlSpec == PackageUrlInit /\ [][PackageUrlNext]_vars

\* An ingestion call of worker w returns; what it returned is in the history.
IngestReturn(w) ==
    /\ ipc' = [ipc EXCEPT ![w] = "idle"]
    /\ doc' = [doc EXCEPT ![w] = NoDocument]

\* A worker resolves a package URL to its Package record: the lookup by the
\* six fields. id 0 in the history: the lookup found several rows
\* (MultipleObjectsReturned).
GetPackage(w) ==
    /\ ipc[w] = "idle"
    /\ ingests < MaxIngests
    /\ ingests' = ingests + 1
    /\ \E url \in IngestPackageUrls :
        LET found == Lookup(packages, PackageRow(0, url), PackageKey)
        IN  IF found = {}
            THEN /\ ipc' = [ipc EXCEPT ![w] = "create_package"]
                 /\ doc' = [doc EXCEPT ![w] = url]
                 /\ UNCHANGED package_ids
            ELSE /\ package_ids' = package_ids \cup
                        {<<url, IF Cardinality(found) = 1
                                THEN (CHOOSE r \in found : TRUE).id ELSE 0>>}
                 /\ UNCHANGED <<ipc, doc>>
    /\ UNCHANGED <<packages, advisories, advisory_ids, advisory_data>>
    /\ UNCHANGED <<mergeVars, resolverVars, packageVars>>

\* No row was found: the INSERT. When the constraint rejects it the row of
\* the worker that came first is returned.
CreatePackage(w) ==
    /\ ipc[w] = "create_package"
    /\ LET row == PackageRow(NextId(packages), doc[w])
       IN  IF UniqueViolation(packages, row, PackageKey)
           THEN /\ package_ids' = package_ids \cup
                        {<<doc[w], r.id>> : r \in Lookup(packages, row, PackageKey)}
                /\ UNCHANGED packages
           ELSE /\ packages' = packages \cup {row}
                /\ package_ids' = package_ids \cup {<<doc[w], row.id>>}
    /\ IngestReturn(w)
    /\ UNCHANGED <<advisories, ingests, advisory_ids, advisory_data>>
    /\ UNCHANGED <<mergeVars, resolverVars, packageVars>>

\* A worker normalizes a raw document: the lookup by the dedup key.
GetAdvisory(w) ==
    /\ ipc[w] = "idle"
    /\ ingests < MaxIngests
    /\ ingests' = ingests + 1
    /\ \E document \in RawDocuments :
        LET found == Lookup(advisories, document, AdvisoryKey)
        IN  IF found = {}
            THEN /\ ipc' = [ipc EXCEPT ![w] = "create_advisory"]
                 /\ doc' = [doc EXCEPT ![w] = document]
                 /\ UNCHANGED advisory_ids
            ELSE /\ advisory_ids' = advisory_ids \cup
                        {<<document, IF Cardinality(found) = 1
                                     THEN (CHOOSE r \in found : TRUE).id ELSE 0>>}
                 /\ UNCHANGED <<ipc, doc>>
    /\ UNCHANGED <<packages, advisories, package_ids, advisory_data>>
    /\ UNCHANGED <<mergeVars, resolverVars, packageVars>>

\* No Advisory with the key was found: the INSERT, under
\* Advisory.Meta.unique_together.
CreateAdvisory(w) ==
    /\ ipc[w] = "create_advisory"
    /\ LET row == AdvisoryRow(NextId(advisories), doc[w])
       IN  IF UniqueViolation(advisories, row, AdvisoryKey)
           THEN /\ advisory_ids' = advisory_ids \cup
                        {<<doc[w], r.id>> : r \in Lookup(advisories, row, AdvisoryKey)}
                /\ UNCHANGED advisories
           ELSE /\ advisories' = advisories \cup {row}
                /\ advisory_ids' = advisory_ids \cup {<<doc[w], row.id>>}
    /\ IngestReturn(w)
    /\ UNCHANGED <<packages, ingests, package_ids, advisory_data>>
    /\ UNCHANGED <<mergeVars, resolverVars, packageVars>>

\* An improver has derived edges from an Advisory and stamps it.
StampImproved ==
    /\ \E advisory \in advisories :
        /\ advisory.date_improved = None
        /\ advisories' = (advisories \ {advisory}) \cup
                {[advisory EXCEPT !.date_improved = ImprovementDate]}
    /\ UNCHANGED <<packages, ipc, doc, ingests, package_ids, advisory_ids,
                   advisory_data>>
    /\ UNCHANGED <<mergeVars, resolverVars, packageVars>>

\* ToAdvisoryData that hands its affected_packages over and keeps none.
ToAdvisoryData_Moving ==
    /\ \E advisory \in advisories :
        /\ advisory_data' = to_advisory_data(advisory)
        /\ advisories' = (advisories \ {advisory}) \cup
                {[advisory EXCEPT !.affected_packages = Json(<<"moved">>)]}
    /\ UNCHANGED <<packages, ipc, doc, ingests, package_ids, advisory_ids>>
    /\ UNCHANGED <<mergeVars, resolverVars, packageVars>>

\* An improver reads an Advisory: advisory.to_advisory_data().
ToAdvisoryData ==
    /\ \E advisory \in advisories :
        advisory_data' = to_advisory_data(advisory)
    /\ UNCHANGED <<packages, advisories, ipc, doc, ingests, package_ids,
                   advisory_ids>>
    /\ UNCHANGED <<mergeVars, resolverVars, packageVars>>

\* Import workers ingest package URLs and documents concurrently; improvers
\* read and stamp the advisories.
IngestNext ==
    \/ \E w \in Workers :
        \/ GetPackage(w)
        \/ CreatePackage(w)
        \/ GetAdvisory(w)
        \/ CreateAdvisory(w)
    \/ StampImproved
    \/ ToAdvisoryData

IngestSpec == Init /\ [][IngestNext]_vars

\* ------------------------------------------------------- graph store queries
\* Vulnerability.vulnerable_to / resolved_to:
\*   self.packages.filter(vulnerabilities__packagerelatedvulnerability__fix=flag)
\* self.packages joins Package to the through row t1 of this vulnerability; the
\* filter path goes on from that row's vulnerability to every through row t2 of
\* the vulnerability (the reverse foreign key), and tests t2.fix.
Vulnerability_packages_filter(v, flag) ==
    {t1.package : t1 \in
        {t \in store : /\ t.vulnerability = v
                       /\ \E t2 \in store : /\ t2.vulnerability = t.vulnerability
                                            /\ t2.fix = flag}}

Vulnerability_vulnerable_to(v) == Vulnerability_packages_filter(v, FALSE)

Vulnerability_resolved_to(v) == Vulnerability_packages_filter(v, TRUE)

\* Package.vulnerable_to / resolved_to:
\*   self.vulnerabilities.filter(packagerelatedvulnerability__fix=flag)
\* the filter's reverse foreign key is the join self.vulnerabilities already
\* made (the through row of this package), so t.fix is tested on that row.
Package_vulnerabilities_filter(p, flag) ==
    {t.vulnerability : t \in {t \in store : t.package = p /\ t.fix = flag}}

Package_vulnerable_to(p) == Package_vulnerabilities_filter(p, FALSE)

Package_resolved_to(p) == Package_vulnerabilities_filter(p, TRUE)

\* ------------------------------------------------------------------ claims
SeenFor(p, v) == {c \in seen : c.package = p /\ c.vulnerability = v}

MaxConfidence(S) ==
    CHOOSE m \in {c.confidence : c \in S} : \A c \in S : c.confidence <= m

SameTriple(r, c) ==
    /\ r.confidence = c.confidence
    /\ r.fix = c.fix
    /\ r.created_by = c.created_by

\* The pair of the call that finished most recently.
FinishedRows == RowsFor(store, finished.self.package, finished.self.vulnerability)

\* C1: after any sequence of (possibly concurrent) update_or_create calls the
\* table holds at most one row for every (package, vulnerability) pair.
C1_OneEdgePerPair ==
    \A p \in Packages, v \in Vulnerabilities :
        Cardinality(RowsFor(store, p, v)) <= 1

\* Two workers raced to create the same pair; one was rejected and the pair
\* has its single row.
C1_Witness ==
    /\ finished.outcome = "error"
    /\ Cardinality(FinishedRows) = 1

\* C2: when claims are applied one after another, once no call is in progress
\* every pair that received claims has one row, whose confidence is the
\* maximum confidence among the claims seen for the pair and whose fix and
\* created_by are those of a seen claim with that confidence.
C2_ConfidenceMonotonic ==
    NoCallInProgress =>
        \A p \in Packages, v \in Vulnerabilities :
            SeenFor(p, v) # {} =>
                /\ RowsFor(store, p, v) # {}
                /\ \A r \in RowsFor(store, p, v) :
                    /\ r.confidence = MaxConfidence(SeenFor(p, v))
                    /\ \E c \in SeenFor(p, v) : SameTriple(r, c)

\* A pair has seen a lower claim, then a higher one with another fix, then a
\* lower one again, and holds the higher claim.
C2_Witness ==
    /\ NoCallInProgress
    /\ finished.outcome = "done"
    /\ finished.existing.id # 0
    /\ finished.self.confidence < finished.existing.confidence
    /\ \E c \in SeenFor(finished.self.package, finished.self.vulnerability) :
        /\ c.confidence < finished.existing.confidence
        /\ c.fix # finished.existing.fix
    /\ finished.existing \in store

\* C3: when claims are applied one after another, a call on a pair whose row is
\* present with confidence c replaces confidence, fix and created_by of that
\* row by the claim's values if the claim's confidence is greater than c, and
\* otherwise (ties included) leaves the table unchanged; no other row changes.
C3_ReplaceIffGreater ==
    [][\A w \in Workers :
        (pc[w] = "got" /\ pc'[w] # "got") =>
            /\ finished'.outcome = "done"
            /\ \A r \in RowsFor(store, self[w].package, self[w].vulnerability) :
                IF self[w].confidence > r.confidence
                THEN store' = (store \ {r}) \cup {Improved(r, self[w])}
                ELSE store' = store]_vars

\* A claim tied the incumbent's confidence with another fix and another
\* created_by, and the incumbent row is still there.
C3_Witness ==
    /\ finished.outcome = "done"
    /\ finished.existing.id # 0
    /\ finished.self.confidence = finished.existing.confidence
    /\ finished.self.fix # finished.existing.fix
    /\ finished.self.created_by # finished.existing.created_by
    /\ finished.existing \in store

\* C4: the comparison-then-write is atomic per pair: never do two workers both
\* hold "absent" for the same pair and stand before create, and never does a
\* worker stand before a save over a row that was rewritten since it read it.
C4_AtomicCompareThenWrite ==
    /\ \A w1, w2 \in Workers :
        (/\ w1 # w2
         /\ pc[w1] = "create"
         /\ pc[w2] = "create")
            => ~(/\ self[w1].package = self[w2].package
                 /\ self[w1].vulnerability = self[w2].vulnerability)
    /\ \A w \in Workers :
        (pc[w] = "got" /\ self[w].confidence > existing[w].confidence)
            => existing[w] \in store

\* C5: once all concurrent calls have finished, every pair that received
\* claims has exactly one row and its confidence is the highest confidence
\* among the claims submitted for the pair.
C5_HigherConfidenceWins ==
    NoCallInProgress =>
        \A p \in Packages, v \in Vulnerabilities :
            SeenFor(p, v) # {} =>
                /\ Cardinality(RowsFor(store, p, v)) = 1
                /\ \A r \in RowsFor(store, p, v) :
                    r.confidence = MaxConfidence(SeenFor(p, v))

\* C6: when claims are applied one after another, a call that repeats the
\* claim of the call just before it finishes without error, changes nothing
\* in the table, and the pair has exactly one row.
C6_Idempotent ==
    finished.repeat =>
        /\ finished.outcome = "done"
        /\ ~finished.wrote
        /\ Cardinality(FinishedRows) = 1

\* The same claim was applied twice in a row and the pair's row carries it.
C6_Witness ==
    /\ finished.repeat
    /\ finished.outcome = "done"
    /\ \E r \in FinishedRows : SameTriple(r, finished.self)

\* C7: a call that observed its pair as absent always succeeds: its create
\* step ends without error and leaves the pair's row with the claim's
\* confidence, fix and created_by, whatever other workers do meanwhile.
C7_CreateAlwaysSucceeds ==
    [][\A w \in Workers :
        (pc[w] = "create" /\ pc'[w] # "create") =>
            /\ finished'.outcome = "done"
            /\ \E r \in RowsFor(store', self[w].package, self[w].vulnerability) :
                SameTriple(r, self[w])]_vars

\* C8: a call that ended in an error changed nothing in the table (every
\* change between its start and its end is another call's), and the table still
\* has at most one row per pair.
C8_AllOrNothing ==
    finished.outcome = "error" =>
        /\ ~finished.wrote
        /\ \A p \in Packages, v \in Vulnerabilities :
            Cardinality(RowsFor(store, p, v)) <= 1

\* A create was rejected by the uniqueness constraint: the pair's row is
\* another claim's.
C8_Witness ==
    /\ finished.outcome = "error"
    /\ finished.existing = DoesNotExist
    /\ \E r \in FinishedRows : ~SameTriple(r, finished.self)

\* C9: vulnerable_to / resolved_to of a vulnerability are exactly the packages
\* whose own row with it has fix = FALSE / TRUE, and vulnerable_to /
\* resolved_to of a package are exactly the vulnerabilities whose row with it
\* has fix = FALSE / TRUE.
C9_QueriesFilterOwnEdge ==
    /\ \A v \in Vulnerabilities :
        /\ Vulnerability_vulnerable_to(v) =
            {p \in Packages : \E r \in RowsFor(store, p, v) : r.fix = FALSE}
        /\ Vulnerability_resolved_to(v) =
            {p \in Packages : \E r \in RowsFor(store, p, v) : r.fix = TRUE}
    /\ \A p \in Packages :
        /\ Package_vulnerable_to(p) =
            {v \in Vulnerabilities : \E r \in RowsFor(store, p, v) : r.fix = FALSE}
        /\ Package_resolved_to(p) =
            {v \in Vulnerabilities : \E r \in RowsFor(store, p, v) : r.fix = TRUE}

\* C10: for every catalog in release order and every pair of bounds (s, e),
\* members of the catalog or not, resolve returns as vulnerable exactly the
\* catalog versions v with s <= v <= e and as patched the smallest catalog
\* version greater than e, or none when there is no such version; on the Istio
\* catalog the three releases of the test resolve to the pairs it expects.
C10_ResolveRange ==
    resolved # NotResolved =>
        LET known == {known_versions[i] : i \in 1..Len(known_versions)}
            later == {v \in known : VersionLess(range_end, v)}
        IN  /\ {resolved.vulnerable[i] : i \in 1..Len(resolved.vulnerable)} =
                {v \in known : /\ VersionLeq(range_start, v)
                               /\ VersionLeq(v, range_end)}
            /\ IF later = {}
               THEN resolved.patched = NoVersion
               ELSE /\ resolved.patched \in later
                    /\ \A v \in later : VersionLeq(resolved.patched, v)
            /\ \A i \in 1..Len(IstioReleases) :
                (/\ known_versions = IstioVersions
                 /\ range_start = IstioReleases[i][1]
                 /\ range_end = IstioReleases[i][2])
                    => resolved = IstioExpected[i]

\* The release "1.3 to 1.3.1" was resolved on the Istio catalog: its end is a
\* catalog version and two versions follow it.
C10_Witness ==
    /\ resolved # NotResolved
    /\ known_versions = IstioVersions
    /\ range_end = <<1, 3, 1>>
    /\ resolved.patched = <<1, 3, 2>>

\* The pairs process_file gave for one view, as <<vulnerable version,
\* patched version>>, in the order they were given.
ViewVersionPairs(type) ==
    LET pairs == SelectSeq(affected_packages,
                           LAMBDA a : a.vulnerable_package.type = type)
    IN  [i \in 1..Len(pairs) |->
            <<pairs[i].vulnerable_package.version,
              pairs[i].patched_package.version>>]

\* <<k, i>>: the i-th catalog version is within the k-th range of the advisory.
VulnerablePositions ==
    {x \in (1..Len(releases)) \X (1..Len(known_versions)) :
        /\ VersionLeq(releases[x[1]][1], known_versions[x[2]])
        /\ VersionLeq(known_versions[x[2]], releases[x[1]][2])}

\* Range order first, catalog order within a range.
PositionBefore(x, y) == x[1] < y[1] \/ (x[1] = y[1] /\ x[2] < y[2])

PositionRank(x) ==
    Cardinality({y \in VulnerablePositions : PositionBefore(y, x)}) + 1

\* The smallest catalog version after the end of the k-th range, if any.
PatchedOfRange(k) ==
    LET later == {i \in 1..Len(known_versions) :
                    VersionLess(releases[k][2], known_versions[i])}
    IN  IF later = {}
        THEN NoVersion
        ELSE known_versions[CHOOSE i \in later : \A j \in later : i <= j]

\* C11: process_file resolves every range of the advisory once per view
\* (golang, github): each view has one pair per vulnerable version of every
\* range, in range order (catalog order within a range), with the range's
\* patched version; both members of a pair carry the view's type; the views
\* have the same version pairs; and on the Istio advisory the result is the
\* affected_packages the test expects.
C11_PairsPerView ==
    affected_packages # NotProcessed =>
        /\ \A n \in 1..Len(affected_packages) :
            LET a == affected_packages[n]
            IN  /\ \E t \in 1..Len(Views) : a.vulnerable_package.type = Views[t]
                /\ a.vulnerable_package.name = "istio"
                /\ \/ a.patched_package = NoPackage
                   \/ /\ a.patched_package.type = a.vulnerable_package.type
                      /\ a.patched_package.name = "istio"
        /\ \A t \in 1..Len(Views) :
            /\ Len(ViewVersionPairs(Views[t])) = Cardinality(VulnerablePositions)
            /\ \A x \in VulnerablePositions :
                ViewVersionPairs(Views[t])[PositionRank(x)] =
                    <<known_versions[x[2]], PatchedOfRange(x[1])>>
        /\ ViewVersionPairs(Views[1]) = ViewVersionPairs(Views[2])
        /\ (known_versions = IstioVersions /\ releases = IstioReleases)
                => affected_packages = IstioAffectedPackages

\* The Istio advisory was processed: three ranges, five vulnerable versions,
\* ten pairs, the golang pairs of the last range before the first github pair.
C11_Witness ==
    /\ affected_packages # NotProcessed
    /\ releases = IstioReleases
    /\ Len(affected_packages) = 10
    /\ affected_packages[5].vulnerable_package =
            [type |-> "golang", name |-> "istio", version |-> <<1, 3, 1>>]
    /\ affected_packages[6].patched_package =
            [type |-> "github", name |-> "istio", version |-> <<1, 1, 17>>]

\* C12: every row's confidence is within 0..MAX_CONFIDENCE, whatever
\* confidence the instances update_or_create was called on carry.
C12_ConfidenceInRange ==
    \A r \in store : r.confidence \in 0..MAX_CONFIDENCE

\* The fields of the argument that are longer than their declared maximum.
TooLongFields ==
    {f \in {FieldNames[i] : i \in 1..Len(FieldNames)} :
        /\ HasMaxLength(f)
        /\ Truthy(package_url[f])
        /\ len(package_url[f]) > max_length(f)}

\* The fields of the argument that are exactly as long as their maximum.
MaxLongFields ==
    {f \in {FieldNames[i] : i \in 1..Len(FieldNames)} :
        /\ HasMaxLength(f)
        /\ Truthy(package_url[f])
        /\ len(package_url[f]) = max_length(f)}

\* C13: set_package_url on a package URL with a field longer than the field's
\* declared maximum length raises a ValidationError that names such a field;
\* no field of the instance holds a cut value (each holds the argument's
\* value, None for an empty one, or what it held before); and a package URL
\* with a field exactly at its maximum and none over it is accepted.
C13_TooLongNamesField ==
    (raised # NotCalled /\ package_url.valid) =>
        /\ TooLongFields # {} =>
            /\ raised.error = "ValidationError"
            /\ raised.field \in TooLongFields
        /\ \A i \in 1..Len(FieldNames) :
            \/ package[FieldNames[i]] = package_url[FieldNames[i]]
            \/ package[FieldNames[i]] = None /\ ~Truthy(package_url[FieldNames[i]])
            \/ package[FieldNames[i]] = held[FieldNames[i]]
        /\ (TooLongFields = {} /\ MaxLongFields # {}) =>
            /\ raised = Returned
            /\ \A f \in MaxLongFields : package[f] = package_url[f]

\* C14: no two rows of the Package table have the same (type, namespace,
\* name, version, qualifiers, subpath), absent components included, and all
\* the calls on one package URL returned the same row.
C14_PackageIdentityUnique ==
    /\ \A r1, r2 \in packages :
        (\A c \in PackageKey : r1[c] = r2[c]) => r1 = r2
    /\ \A x, y \in package_ids : x[1] = y[1] => x[2] = y[2]

\* C15: no two rows of the Advisory table have the same (aliases, summary,
\* affected_packages, references, date_published), absent summary or
\* date_published included, and every call on one raw document returned the
\* same row.
C15_AdvisoryDedup ==
    /\ \A r1, r2 \in advisories :
        (\A c \in AdvisoryKey : r1[c] = r2[c]) => r1 = r2
    /\ \A x, y \in advisory_ids : x[1] = y[1] => x[2] = y[2]

\* The fields of an Advisory other than date_improved.
EvidenceFields ==
    {"id", "aliases", "summary", "affected_packages", "references",
     "date_published", "date_collected", "created_by"}

\* C16: no step (normalizing a document again, stamping date_improved,
\* to_advisory_data, ingesting a package) removes an Advisory or changes its
\* aliases, summary, affected_packages, references, date_published,
\* date_collected or created_by; only date_improved may change.
C16_AdvisoryImmutable ==
    [][\A a \in advisories :
        \E b \in advisories' :
            \A f \in EvidenceFields : b[f] = a[f]]_vars

\* An Advisory was normalized a second time, stamped by an improver, and read
\* with to_advisory_data: it still has the fields it was created with.
C16_Witness ==
    \E a \in advisories :
        /\ a.date_improved # None
        /\ a.date_collected # a.date_improved
        /\ advisory_data = to_advisory_data(a)
        /\ a.summary # None
        /\ a.date_published # None
        /\ ingests >= 2
        /\ packages = {}
        /\ \A w \in Workers : ipc[w] = "idle"
        /\ advisories = {a}
        /\ advisory_ids = {<<to_advisory_data(a), a.id>>}

\* C17: in every step, concurrent calls included, every pair that has a row
\* still has a row afterwards, and with a confidence that is not lower.
C17_EdgeOnlyImproves ==
    [][\A r \in store :
        \E r2 \in store' :
            /\ r2.package = r.package
            /\ r2.vulnerability = r.vulnerability
            /\ r2.confidence >= r.confidence]_vars

\* C18: for a range without a start, resolve returns as vulnerable exactly
\* the catalog versions v <= range_end and as patched the smallest catalog
\* version greater than range_end (none if there is none); for a range
\* without an end, exactly the catalog versions v >= range_start and no
\* patched version.
C18_OpenEndedRanges ==
    resolved # NotResolved =>
        LET known == {known_versions[i] : i \in 1..Len(known_versions)}
            vulnerable == {resolved.vulnerable[i] : i \in 1..Len(resolved.vulnerable)}
            later == {v \in known : VersionLess(range_end, v)}
        IN  /\ (range_start = NoVersion /\ range_end # NoVersion) =>
                /\ vulnerable = {v \in known : VersionLeq(v, range_end)}
                /\ IF later = {}
                   THEN resolved.patched = NoVersion
                   ELSE /\ resolved.patched \in later
                        /\ \A v \in later : VersionLeq(resolved.patched, v)
            /\ (range_end = NoVersion /\ range_start # NoVersion) =>
                /\ vulnerable = {v \in known : VersionLeq(range_start, v)}
                /\ resolved.patched = NoVersion

\* A range without an end was resolved on a catalog with a version before its
\* start and two from its start on.
C18_Witness ==
    /\ resolved # NotResolved
    /\ range_end = NoVersion
    /\ range_start = <<1, 2, 5>>
    /\ Len(known_versions) = 3
    /\ Len(resolved.vulnerable) = 2
    /\ resolved.patched = NoVersion

\* C19: a call logs an event exactly when it changed the table: "New
\* relationship" when it created the pair's row, "Confidence improved" when
\* its claim was greater than the row's confidence and replaced it, nothing
\* when its claim was not greater or the call failed; and the row of a call
\* that logged carries the claim's confidence, fix and created_by.
C19_EventIffChange ==
    finished.outcome # "none" =>
        /\ (finished.logged # NoEvent) <=> finished.wrote
        /\ finished.logged = NewRelationship <=>
                (finished.outcome = "done" /\ finished.existing = DoesNotExist)
        /\ finished.logged = ConfidenceImproved <=>
                /\ finished.existing # DoesNotExist
                /\ finished.self.confidence > finished.existing.confidence
        /\ finished.logged # NoEvent =>
                \E r \in FinishedRows : SameTriple(r, finished.self)

\* A claim lost against the row of a greater claim seen earlier, a smaller
\* claim having been seen too: nothing was logged and the row is untouched.
C19_Witness ==
    /\ finished.outcome = "done"
    /\ finished.existing # DoesNotExist
    /\ finished.self.confidence < finished.existing.confidence
    /\ finished.logged = NoEvent
    /\ finished.existing \in store
    /\ \E c \in seen : /\ SameTriple(finished.existing, c)
                        /\ \E c2 \in seen : c2.confidence < c.confidence

\* C20: in every state, whatever the interleaving of the calls, the
\* confidence, fix and created_by of every row are together those of one
\* claim update_or_create was called with for the row's pair.
C20_TripleOfOneClaim ==
    \A r \in store :
        \E c \in SeenFor(r.package, r.vulnerability) : SameTriple(r, c)

\* A worker saved over a row that another worker had improved meanwhile: the
\* row has the fix and created_by of the late claim together with its
\* confidence, which is not the highest seen.
C20_Witness ==
    /\ finished.outcome = "done"
    /\ finished.wrote
    /\ finished.existing # DoesNotExist
    /\ finished.self.fix # finished.existing.fix
    /\ \E r \in FinishedRows :
        /\ SameTriple(r, finished.self)
        /\ r.confidence <
            MaxConfidence(SeenFor(finished.self.package, finished.self.vulnerability))
        /\ \E c \in SeenFor(r.package, r.vulnerability) :
            c.confidence > r.confidence /\ c.fix # r.fix

\* C21: for every vulnerability, vulnerable_to and resolved_to are disjoint
\* and together are exactly the packages that have a row with it; for every
\* package, vulnerable_to and resolved_to are disjoint and together are
\* exactly the vulnerabilities that have a row with it.
C21_QueriesPartition ==
    /\ \A v \in Vulnerabilities :
        /\ Vulnerability_vulnerable_to(v) \cap Vulnerability_resolved_to(v) = {}
        /\ Vulnerability_vulnerable_to(v) \cup Vulnerability_resolved_to(v) =
            {p \in Packages : RowsFor(store, p, v) # {}}
    /\ \A p \in Packages :
        /\ Package_vulnerable_to(p) \cap Package_resolved_to(p) = {}
        /\ Package_vulnerable_to(p) \cup Package_resolved_to(p) =
            {v \in Vulnerabilities : RowsFor(store, p, v) # {}}

\* C22: after set_package_url has returned without an error, every field of
\* the instance is the corresponding component of the package URL, None for
\* an empty component, whatever the instance held before; a value held before
\* is left in a field only where the package URL has that same value.
C22_OverwritesEveryField ==
    raised = Returned =>
        \A i \in 1..Len(FieldNames) :
            LET f == FieldNames[i]
            IN  /\ package[f] =
                    IF Truthy(package_url[f]) THEN package_url[f] ELSE None
                /\ package[f] = held[f] =>
                    \/ held[f] = package_url[f]
                    \/ held[f] = None

\* set_package_url returned on an instance that held a value in every field,
\* for a package URL without namespace, with an empty version, empty
\* qualifiers and no subpath: the four fields are None.
C22_Witness ==
    /\ raised = Returned
    /\ held = SetPackage
    /\ package_url.namespace = None
    /\ package_url.version = Str("", 0)
    /\ package_url.qualifiers = Dict({})
    /\ package_url.subpath = None
    /\ package.type = Str("t", 16)
    /\ package.namespace = None
    /\ package.version = None
    /\ package.qualifiers = None
    /\ package.subpath = None

====
